---- MODULE Spec2Model ----
(***************************************************************************)
(* Settings slice of the fish-management backend: the settings router     *)
(* (middleware chain and the two routes), migration 001 (user_settings    *)
(* table, its constraints, index, trigger and backfill) and the users the *)
(* rows belong to.  The handlers and the middleware bodies are imported   *)
(* by the router from ../handlers/settings and ../middleware; they are    *)
(* modelled from the specification (sections 2, 4.1, 6 and 7).            *)
(***************************************************************************)
EXTENDS Integers, Sequences, FiniteSets, TLC

(* ------------------------------ bounds --------------------------------- *)

\* Highest reading of the database clock (CURRENT_TIMESTAMP).
MaxClock == 1

\* Most fields one PUT payload names.
MaxPayloadFields == 2

\* Highest retries setting a caller passes in its request config.
MaxConfigRetries == 2

(* ------------------------------ universe ------------------------------- *)

Users == {"A", "B"}

Slots == {"r1", "r2"}

Methods == {"GET", "PUT"}

NoUser == "none"

\* Fields a payload may name and the values offered for each: the closed
\* set of the column plus one value outside it.
PayloadFields == {"currency", "language", "theme"}

Offered(f) ==
    CASE f = "currency" -> {"USD", "RWF", "EUR"}
      [] f = "language" -> {"en", "rw", "fr"}
      [] f = "theme"    -> {"light", "dark", "system", "blue"}

AllOffered == UNION {Offered(f) : f \in PayloadFields}

Payloads ==
    {p \in UNION {[S -> AllOffered] : S \in SUBSET PayloadFields} :
        /\ Cardinality(DOMAIN p) <= MaxPayloadFields
        /\ \A f \in DOMAIN p : p[f] \in Offered(f)}

EmptyPayload == [f \in {} |-> ""]

(* --------------------------- migration 001 ----------------------------- *)

\* The column defaults with DEFAULT 'RWF' for currency.
ColumnDefaultsRwf ==
    [currency             |-> "RWF",
     language             |-> "en",
     timezone             |-> "UTC",
     date_format          |-> "MM/DD/YYYY",
     theme                |-> "light",
     email_notifications  |-> TRUE,
     sms_notifications    |-> FALSE,
     low_stock_alerts     |-> TRUE,
     daily_reports        |-> TRUE,
     weekly_reports       |-> TRUE,
     monthly_reports      |-> FALSE,
     auto_reporting       |-> TRUE,
     business_hours_start |-> "08:00:00",
     business_hours_end   |-> "18:00:00",
     working_days         |-> <<1, 2, 3, 4, 5>>]

\* CREATE TABLE user_settings: the DEFAULT of every column but setting_id,
\* user_id and the two audit columns.
ColumnDefaults ==
    [currency             |-> "USD",
     language             |-> "en",
     timezone             |-> "UTC",
     date_format          |-> "MM/DD/YYYY",
     theme                |-> "light",
     email_notifications  |-> TRUE,
     sms_notifications    |-> FALSE,
     low_stock_alerts     |-> TRUE,
     daily_reports        |-> TRUE,
     weekly_reports       |-> TRUE,
     monthly_reports      |-> FALSE,
     auto_reporting       |-> TRUE,
     business_hours_start |-> "08:00:00",
     business_hours_end   |-> "18:00:00",
     working_days         |-> <<1, 2, 3, 4, 5>>]

ValueColumns == DOMAIN ColumnDefaults

\* The CHECK constraints of currency, language and theme.
CheckConstraints(row) ==
    /\ row.currency \in {"USD", "RWF"}
    /\ row.language \in {"en", "rw"}
    /\ row.theme \in {"light", "dark", "system"}

\* The table without the unique index: no row is ever refused.
UniqueViolationNoIndex(table, uid) == FALSE

\* CREATE UNIQUE INDEX idx_user_settings_user_id: a row for uid is refused
\* while the table holds one.
UniqueViolation(table, uid) == \E x \in table : x.user_id = uid

\* user_id ... REFERENCES users(user_id): the referenced user must exist.
ForeignKeyOk(ust, uid) == uid \in Users /\ ust[uid] = "active"

\* The foreign key without ON DELETE CASCADE taking the rows along.
CascadeDeleteNone(table, uid) == table

\* ... ON DELETE CASCADE: deleting the user removes the rows that reference it.
CascadeDelete(table, uid) == {x \in table : x.user_id # uid}

\* The trigger without the assignment: RETURN NEW only.
TriggerUpdatedAtNoAssign(old, new, ts) == new

\* The trigger stamping both audit columns.
TriggerUpdatedAtBothAudit(old, new, ts) == [new EXCEPT !.updated_at = ts, !.created_at = ts]

\* The trigger ending in RETURN OLD: the update is discarded.
TriggerUpdatedAtReturnOld(old, new, ts) == [old EXCEPT !.updated_at = ts]

\* BEFORE UPDATE trigger update_user_settings_updated_at:
\* NEW.updated_at = CURRENT_TIMESTAMP; RETURN NEW.
TriggerUpdatedAt(old, new, ts) == [new EXCEPT !.updated_at = ts]

\* An INSERT that drops the columns it names: every column takes its DEFAULT.
NewRowDefaultsOnly(id, uid, named, ts) ==
    [c \in DOMAIN ColumnDefaults \cup {"setting_id", "user_id", "created_at", "updated_at"} |->
        CASE c = "setting_id" -> id
          [] c = "user_id"    -> uid
          [] c = "created_at" -> ts
          [] c = "updated_at" -> ts
          [] OTHER -> ColumnDefaults[c]]

\* The row an INSERT builds from the columns it names: every other column
\* takes its DEFAULT, setting_id a fresh uuid, both audit columns
\* CURRENT_TIMESTAMP.
NewRow(id, uid, named, ts) ==
    [c \in ValueColumns \cup {"setting_id", "user_id", "created_at", "updated_at"} |->
        CASE c = "setting_id" -> id
          [] c = "user_id"    -> uid
          [] c = "created_at" -> ts
          [] c = "updated_at" -> ts
          [] OTHER -> IF c \in DOMAIN named THEN named[c] ELSE ColumnDefaults[c]]

\* The columns the backfill INSERT names.
BackfillColumns == [currency |-> "USD", language |-> "en", theme |-> "light"]

RECURSIVE Backfill(_, _, _, _)
\* INSERT INTO user_settings ... SELECT user_id, 'USD', 'en', 'light' FROM
\* users WHERE NOT EXISTS (a row of that user): one row for each user in todo.
Backfill(table, todo, id, ts) ==
    IF todo = {} THEN table
    ELSE LET u == CHOOSE x \in todo : TRUE IN
         IF UniqueViolation(table, u)
         THEN Backfill(table, todo \ {u}, id, ts)
         ELSE Backfill(table \cup {NewRow(id, u, BackfillColumns, ts)},
                       todo \ {u}, id + 1, ts)

\* The record the script inserts into schema_migrations; applied_at takes
\* its DEFAULT CURRENT_TIMESTAMP.
MigrationRecord(ts) ==
    [version     |-> "001",
     description |-> "Add user_settings table for user preferences including currency settings",
     applied_at  |-> ts]

\* schema_migrations without a key on version: no record is ever in conflict.
VersionConflictNoKey(table, v) == FALSE

\* version VARCHAR(50) PRIMARY KEY ... ON CONFLICT (version): the table holds
\* a record of that version.
VersionConflict(table, v) == \E i \in 1..Len(table) : table[i].version = v

(* ------------------------------- state --------------------------------- *)

VARIABLES
    userState,      \* users table: "none" (never created), "active", "deleted"
    tableExists,    \* user_settings (with its index and trigger) exists
    rows,           \* the rows of user_settings
    nextId,         \* stands for uuid_generate_v4(): the next fresh setting_id
    now,            \* the database clock
    smExists,       \* schema_migrations exists
    smVersions,     \* the records of schema_migrations, in insertion order
    mig,            \* position of a run of the migration script
    preExisting,    \* the users the backfill found when it created the table
    req,            \* the requests in flight, one per slot
    client          \* the front end's ApiClient and the request it is making

vars == <<userState, tableExists, rows, nextId, now, smExists, smVersions, mig,
          preExisting, req, client>>

dbVars == <<userState, tableExists, rows, nextId, smExists, smVersions, mig, preExisting>>

RowsOf(table, uid) == {x \in table : x.user_id = uid}

(* ------------------------- settings router ----------------------------- *)

\* The chain with the rate limiter registered first.
MiddlewareRateLimitFirst == <<"apiRateLimit", "authenticate", "enforceDataIsolation">>

\* settings.use('*', authenticate); settings.use('*', enforceDataIsolation);
\* settings.use('*', apiRateLimit()): the middleware in registration order.
Middleware == <<"authenticate", "enforceDataIsolation", "apiRateLimit">>

\* settings.get('/', getSettingsHandler); settings.put('/', updateSettingsHandler).
Route(method) ==
    IF method = "GET" THEN "getSettingsHandler" ELSE "updateSettingsHandler"

IdleReq ==
    [pc      |-> "idle",
     method  |-> "GET",
     cred    |-> NoUser,        \* the user the bearer token was issued to
     uid     |-> NoUser,        \* identity context set by authenticate
     scope   |-> NoUser,        \* user id the queries are constrained to
     passed  |-> <<>>,          \* middleware that called next()
     payload |-> EmptyPayload,
     status  |-> 0,
     body    |-> {},            \* the settings rows of the response
     missed  |-> FALSE,         \* the handler's SELECT found no row
     prior   |-> {},            \* requests answered before this one began
     latest  |-> FALSE]         \* this update is the last committed on the user's row

Respond(q, status, body) == [q EXCEPT !.pc = "done", !.status = status, !.body = body]

\* next(): the following middleware, or the route's handler after the last.
CallNext(q, name) ==
    LET done == Append(q.passed, name) IN
    [q EXCEPT !.passed = done,
              !.pc = IF Len(done) = Len(Middleware) THEN Route(q.method)
                     ELSE "middleware"]

\* A handler that validates nothing.
ValidPayloadAny(p) == TRUE

\* validates enumerated fields against their closed value sets
ValidPayload(p) ==
    /\ "currency" \in DOMAIN p => p["currency"] \in {"USD", "RWF"}
    /\ "language" \in DOMAIN p => p["language"] \in {"en", "rw"}
    /\ "theme" \in DOMAIN p => p["theme"] \in {"light", "dark", "system"}

\* UPDATE ... SET <the named columns>: every other column keeps its value.
Merge(row, p) == [c \in DOMAIN row |-> IF c \in DOMAIN p THEN p[c] ELSE row[c]]

(* ------------------------------ ApiClient ------------------------------ *)

\* const MAX_RETRIES = 3
MAX_RETRIES == 3

\* Response statuses the server side of fetch may produce.
Statuses == {200, 304, 404, 429, 500}

\* What response.text() gives to handleResponse.
BodyKinds == {"json", "empty", "null", "invalid"}

\* The retries a call runs with: config.retries ?? this.maxRetries.
RetriesOffered == (-1..MaxConfigRetries) \cup {MAX_RETRIES}

\* No value: an uninitialised lastError, a request that has no result yet.
Undefined == [kind |-> "undefined", status |-> 0, class |-> "", code |-> "", fetchMsg |-> FALSE]

\* A Response with the given status.
Resp(st) == [kind |-> "response", status |-> st, class |-> "", code |-> "", fetchMsg |-> FALSE]

\* A thrown value: its class, and whether its message includes 'fetch'.
Thrown(class, fetchMsg) ==
    [kind |-> "throw", status |-> 0, class |-> class, code |-> "", fetchMsg |-> fetchMsg]

\* new ApiClientError(message, status, code)
ApiClientError(st, code) ==
    [kind |-> "throw", status |-> st, class |-> "ApiClientError", code |-> code, fetchMsg |-> FALSE]

\* What one call of fetch ends in: a response, an abort by the timeout, a
\* network failure (TypeError, 'Failed to fetch' or another message), or
\* any other error.
FetchOutcomes ==
    {Resp(st) : st \in Statuses}
        \cup {Thrown("AbortError", FALSE), Thrown("TypeError", TRUE),
              Thrown("TypeError", FALSE), Thrown("Error", FALSE)}

\* response.ok
Ok(o) == o.kind = "response" /\ o.status >= 200 /\ o.status <= 299

\* requestFn: the response of fetch; an AbortError becomes
\* ApiClientError('Request timeout', 408, 'TIMEOUT'), any other error is rethrown.
RequestFn(o) ==
    IF o.kind = "throw" /\ o.class = "AbortError" THEN ApiClientError(408, "TIMEOUT")
    ELSE o

\* withRetry: 'Don't retry on client errors (4xx) except 429', 'Don't retry on
\* successful responses'.
ReturnsAtOnce(o) ==
    \/ o.status >= 400 /\ o.status < 500 /\ o.status # 429
    \/ Ok(o)

\* A backoff that starts at two seconds.
DelayFromTwo(attempt) == (2 ^ (attempt + 1)) * 1000

\* withRetry: Math.pow(2, attempt) * 1000
Delay(attempt) == (2 ^ attempt) * 1000

\* A catch block that rethrows whatever it caught.
WrapErrorRethrow(e) == e

\* makeRequest, catch: an ApiClientError is rethrown, a TypeError whose message
\* includes 'fetch' becomes NETWORK_ERROR, anything else UNKNOWN_ERROR.
WrapError(e) ==
    IF e.class = "ApiClientError" THEN e
    ELSE IF e.class = "TypeError" /\ e.fetchMsg THEN ApiClientError(0, "NETWORK_ERROR")
    ELSE ApiClientError(0, "UNKNOWN_ERROR")

\* handleResponse: what it returns ("resolve") or throws for a response whose
\* text is of the given kind.
HandleResponseResult(response, body) ==
    IF body = "invalid"
    THEN [kind |-> "reject", value |-> ApiClientError(response.status, "INVALID_JSON"), body |-> body]
    ELSE IF ~Ok(response)
    THEN [kind |-> "reject",
          value |-> IF body = "null" THEN Thrown("TypeError", FALSE)
                    ELSE ApiClientError(response.status, "HTTP_ERROR"),
          body |-> body]
    ELSE [kind |-> "resolve", value |-> response, body |-> body]

NoResult == [kind |-> "none", value |-> Undefined, body |-> ""]

IdleClient ==
    [pc        |-> "idle",
     retries   |-> 0,
     attempt   |-> 0,
     calls     |-> 0,           \* calls of requestFn so far
     waits     |-> <<>>,        \* the backoff delays slept so far, in ms
     last      |-> Undefined,   \* what the latest call of requestFn ended in
     lastError |-> Undefined,
     retried   |-> NoResult,    \* what withRetry returned or threw
     result    |-> NoResult]    \* what makeRequest resolved or rejected with

(* ------------------------------- Init ---------------------------------- *)

Init ==
    /\ userState = [u \in Users |-> "none"]
    /\ tableExists = FALSE
    /\ rows = {}
    /\ nextId = 1
    /\ now = 0
    /\ smExists = FALSE
    /\ smVersions = <<>>
    /\ mig = "idle"
    /\ preExisting = {}
    /\ req = [r \in Slots |-> IdleReq]
    /\ client = IdleClient

(* ------------------------------ users ---------------------------------- *)

CreateUser(u) ==
    /\ userState[u] = "none"
    /\ userState' = [userState EXCEPT ![u] = "active"]
    /\ UNCHANGED <<tableExists, rows, nextId, now, smExists, smVersions, mig, req, preExisting, client>>

DeleteUser(u) ==
    /\ userState[u] = "active"
    /\ userState' = [userState EXCEPT ![u] = "deleted"]
    /\ rows' = CascadeDelete(rows, u)
    /\ UNCHANGED <<tableExists, nextId, now, smExists, smVersions, mig, req, preExisting, client>>

Tick ==
    /\ now < MaxClock
    /\ now' = now + 1
    /\ UNCHANGED <<dbVars, req, client>>

(* --------------------------- migration run ----------------------------- *)

MigrateStart ==
    /\ mig = "idle"
    /\ mig' = "do"
    /\ UNCHANGED <<userState, tableExists, rows, nextId, now, smExists, smVersions, req, preExisting, client>>

\* The DO block, IF branch: table, index, trigger and backfill in one statement.
MigrateCreate ==
    /\ mig = "do"
    /\ ~tableExists
    /\ LET existing == {u \in Users : userState[u] = "active"} IN
        /\ rows' = Backfill({}, existing, nextId, now)
        /\ nextId' = nextId + Cardinality(existing)
        /\ preExisting' = existing
    /\ tableExists' = TRUE
    /\ mig' = "record"
    /\ UNCHANGED <<userState, now, smExists, smVersions, req, client>>

\* The DO block, ELSE branch: 'already exists, skipping'.
MigrateSkip ==
    /\ mig = "do"
    /\ tableExists
    /\ mig' = "record"
    /\ UNCHANGED <<userState, tableExists, rows, nextId, now, smExists, smVersions, req, preExisting, client>>

\* The DO block, EXCEPTION WHEN OTHERS: a statement of the IF branch failed,
\* the block is rolled back and 'Migration 001 failed' raised; the script
\* runner goes on with the next statement or stops.
MigrateFail ==
    /\ mig = "do"
    /\ ~tableExists
    /\ mig' \in {"record", "idle"}
    /\ UNCHANGED <<userState, tableExists, rows, nextId, now, smExists, smVersions, req, preExisting, client>>

\* CREATE TABLE IF NOT EXISTS schema_migrations; INSERT '001' ON CONFLICT
\* (version) DO NOTHING.
MigrateRecord ==
    /\ mig = "record"
    /\ smExists' = TRUE
    /\ smVersions' = IF VersionConflict(smVersions, "001") THEN smVersions
                     ELSE Append(smVersions, MigrationRecord(now))
    /\ mig' = "idle"
    /\ UNCHANGED <<userState, tableExists, rows, nextId, now, req, preExisting, client>>

(* ------------------------------ requests ------------------------------- *)

Begin(r, m, c) ==
    /\ req[r].pc = "idle"
    /\ c \in {NoUser} \cup {u \in Users : userState[u] # "none"}
    /\ req' = [req EXCEPT ![r] =
                 [IdleReq EXCEPT !.pc = "middleware", !.method = m, !.cred = c,
                                 !.prior = {s \in Slots \ {r} : req[s].pc = "done"}]]
    /\ UNCHANGED <<dbVars, now, client>>

\* authenticate: validates the bearer token, populates the identity context.
Authenticate(q) ==
    IF q.cred = NoUser THEN {Respond(q, 401, {})}
    ELSE {CallNext([q EXCEPT !.uid = q.cred], "authenticate")}

\* A data-isolation middleware that lets the queries reach any user's rows.
EnforceDataIsolationAnyUser(q) ==
    IF q.uid = NoUser THEN {Respond(q, 401, {})}
    ELSE {CallNext([q EXCEPT !.scope = u], "enforceDataIsolation") : u \in Users}

\* enforceDataIsolation: constrains queries to the authenticated user.
EnforceDataIsolation(q) ==
    IF q.uid = NoUser THEN {Respond(q, 401, {})}
    ELSE {CallNext([q EXCEPT !.scope = q.uid], "enforceDataIsolation")}

\* apiRateLimit(): bounds the request rate per key.
ApiRateLimit(q) == {CallNext(q, "apiRateLimit"), Respond(q, 429, {})}

RunMiddleware(r) ==
    /\ req[r].pc = "middleware"
    /\ LET q == req[r]
           name == Middleware[Len(q.passed) + 1]
           outcomes == CASE name = "authenticate" -> Authenticate(q)
                         [] name = "enforceDataIsolation" -> EnforceDataIsolation(q)
                         [] name = "apiRateLimit" -> ApiRateLimit(q)
       IN \E q2 \in outcomes : req' = [req EXCEPT ![r] = q2]
    /\ UNCHANGED <<dbVars, now, client>>

\* getSettingsHandler: SELECT the row of the current user.
GetSettings(r) ==
    /\ req[r].pc = "getSettingsHandler"
    /\ LET q == req[r]
           found == RowsOf(rows, q.scope)
       IN req' = [req EXCEPT ![r] =
                    IF ~tableExists THEN Respond(q, 500, {})
                    ELSE IF found # {} THEN Respond(q, 200, found)
                    ELSE [q EXCEPT !.pc = "materialize", !.missed = TRUE]]
    /\ UNCHANGED <<dbVars, now, client>>

\* getSettingsHandler, no row found: INSERT the default-valued row
\* ON CONFLICT (user_id) DO NOTHING and return the user's row.
Materialize(r) ==
    /\ req[r].pc = "materialize"
    /\ LET q == req[r] IN
        IF UniqueViolation(rows, q.scope)
        THEN /\ req' = [req EXCEPT ![r] = Respond(q, 200, RowsOf(rows, q.scope))]
             /\ UNCHANGED <<rows, nextId>>
        ELSE IF ~ForeignKeyOk(userState, q.scope)
        THEN /\ req' = [req EXCEPT ![r] = Respond(q, 500, {})]
             /\ UNCHANGED <<rows, nextId>>
        ELSE LET new == NewRow(nextId, q.scope, EmptyPayload, now) IN
             /\ rows' = rows \cup {new}
             /\ nextId' = nextId + 1
             /\ req' = [req EXCEPT ![r] = Respond(q, 200, {new})]
    /\ UNCHANGED <<userState, tableExists, now, smExists, smVersions, mig, preExisting, client>>

\* updateSettingsHandler: validate the payload, 400 on an invalid enum value.
UpdateSettings(r, p) ==
    /\ req[r].pc = "updateSettingsHandler"
    /\ LET q == [req[r] EXCEPT !.payload = p] IN
       req' = [req EXCEPT ![r] =
                 IF ~ValidPayload(p) THEN Respond(q, 400, {})
                 ELSE [q EXCEPT !.pc = "upsert"]]
    /\ UNCHANGED <<dbVars, now, client>>

\* The requests after r's update has committed with response q2: every
\* other update of the same user is no longer the latest.
Committed(r, q2) ==
    [s \in Slots |->
        IF s = r THEN [q2 EXCEPT !.latest = TRUE]
        ELSE IF req[s].scope = q2.scope THEN [req[s] EXCEPT !.latest = FALSE]
        ELSE req[s]]

\* updateSettingsHandler, valid payload: INSERT (user_id, named columns)
\* ON CONFLICT (user_id) DO UPDATE SET the named columns, RETURNING the row.
Upsert(r) ==
    /\ req[r].pc = "upsert"
    /\ LET q == req[r] IN
        IF ~tableExists
        THEN /\ req' = [req EXCEPT ![r] = Respond(q, 500, {})]
             /\ UNCHANGED <<rows, nextId>>
        ELSE IF UniqueViolation(rows, q.scope)
        THEN LET old == CHOOSE x \in rows : x.user_id = q.scope
                 new == TriggerUpdatedAt(old, Merge(old, q.payload), now)
             IN IF CheckConstraints(new)
                THEN /\ rows' = (rows \ {old}) \cup {new}
                     /\ req' = Committed(r, Respond(q, 200, {new}))
                     /\ UNCHANGED nextId
                ELSE /\ req' = [req EXCEPT ![r] = Respond(q, 500, {})]
                     /\ UNCHANGED <<rows, nextId>>
        ELSE LET new == NewRow(nextId, q.scope, q.payload, now) IN
             IF CheckConstraints(new) /\ ForeignKeyOk(userState, q.scope)
             THEN /\ rows' = rows \cup {new}
                  /\ nextId' = nextId + 1
                  /\ req' = Committed(r, Respond(q, 200, {new}))
             ELSE /\ req' = [req EXCEPT ![r] = Respond(q, 500, {})]
                  /\ UNCHANGED <<rows, nextId>>
    /\ UNCHANGED <<userState, tableExists, now, smExists, smVersions, mig, preExisting, client>>

\* The response has been sent; the slot is free for the next request.
Complete(r) ==
    /\ req[r].pc = "done"
    /\ req' = [s \in Slots |->
                 IF s = r THEN IdleReq
                 ELSE [req[s] EXCEPT !.prior = @ \ {r}]]
    /\ UNCHANGED <<dbVars, now, client>>

(* ------------------------- ApiClient calls ----------------------------- *)

\* makeRequest (get, post, put, patch, delete): retries = config.retries ??
\* this.maxRetries, then withRetry(requestFn, retries).
MakeRequest(n) ==
    /\ client.pc = "idle"
    /\ client' = [IdleClient EXCEPT !.pc = "withRetry", !.retries = n]
    /\ UNCHANGED <<dbVars, now, req>>

\* makeRequest: what becomes of a value thrown inside its try block.
Rejected(c, e) ==
    [c EXCEPT !.pc = "done",
              !.result = [kind |-> "reject", value |-> WrapError(e), body |-> ""]]

\* withRetry, one pass of the loop body: call requestFn; return the response,
\* or wait and go round again, or remember the error.
Attempt(o) ==
    /\ client.pc = "withRetry"
    /\ client.attempt <= client.retries
    /\ LET out == RequestFn(o)
           c == [client EXCEPT !.calls = @ + 1, !.last = out]
           again == [c EXCEPT !.waits = Append(@, Delay(client.attempt)),
                              !.attempt = @ + 1]
       IN client' =
            IF out.kind = "response"
            THEN IF ReturnsAtOnce(out) \/ ~(client.attempt < client.retries)
                 THEN [c EXCEPT !.pc = "handleResponse",
                                !.retried = [kind |-> "return", value |-> out, body |-> ""]]
                 ELSE again
            ELSE IF client.attempt < client.retries
                 THEN [again EXCEPT !.lastError = out]
                 ELSE [c EXCEPT !.lastError = out, !.attempt = @ + 1]
    /\ UNCHANGED <<dbVars, now, req>>

\* withRetry, after the loop: throw lastError; makeRequest catches it.
Exhausted ==
    /\ client.pc = "withRetry"
    /\ client.attempt > client.retries
    /\ client' = Rejected([client EXCEPT !.retried =
                              [kind |-> "throw", value |-> client.lastError, body |-> ""]],
                          client.lastError)
    /\ UNCHANGED <<dbVars, now, req>>

\* makeRequest: return await this.handleResponse(response).
HandleResponse(body) ==
    /\ client.pc = "handleResponse"
    /\ LET res == HandleResponseResult(client.retried.value, body) IN
       client' = IF res.kind = "resolve"
                 THEN [client EXCEPT !.pc = "done", !.result = res]
                 ELSE [Rejected(client, res.value) EXCEPT !.result.body = body]
    /\ UNCHANGED <<dbVars, now, req>>

\* The caller has the result; the client is free for the next call.
Settle ==
    /\ client.pc = "done"
    /\ client' = IdleClient
    /\ UNCHANGED <<dbVars, now, req>>

(* ------------------------- specifications ------------------------------ *)

\* Payloads that name the currency only.
CurrencyPayloads == {p \in Payloads : DOMAIN p = {"currency"}}

\* The whole life of the store: users come and go, the migration script
\* runs (and runs again), two requests at a time are served.
Next ==
    \/ \E u \in Users : CreateUser(u)
    \/ \E u \in Users : DeleteUser(u)
    \/ MigrateStart
    \/ MigrateCreate
    \/ MigrateSkip
    \/ MigrateFail
    \/ MigrateRecord
    \/ \E r \in Slots, m \in Methods, c \in Users \cup {NoUser} : Begin(r, m, c)
    \/ \E r \in Slots : RunMiddleware(r)
    \/ \E r \in Slots : GetSettings(r)
    \/ \E r \in Slots : Materialize(r)
    \/ \E r \in Slots, p \in CurrencyPayloads : UpdateSettings(r, p)
    \/ \E r \in Slots : Upsert(r)
    \/ \E r \in Slots : Complete(r)

Spec == Init /\ [][Next]_vars

\* The migrated database with user A, who either was there when the
\* migration ran (and has the backfilled row) or was created after it.
InitDeployed ==
    /\ userState = [u \in Users |-> IF u = "A" THEN "active" ELSE "none"]
    /\ tableExists = TRUE
    /\ \E before \in BOOLEAN :
        /\ rows = Backfill({}, IF before THEN {"A"} ELSE {}, 1, 0)
        /\ nextId = IF before THEN 2 ELSE 1
        /\ preExisting = IF before THEN {"A"} ELSE {}
    /\ now = 0
    /\ smExists = TRUE
    /\ smVersions = <<MigrationRecord(0)>>
    /\ mig = "idle"
    /\ req = [r \in Slots |-> IdleReq]
    /\ client = IdleClient

\* Requests of user A against the migrated database, every payload, while
\* the clock runs.
NextPut ==
    \/ Tick
    \/ \E r \in Slots, m \in Methods : Begin(r, m, "A")
    \/ \E r \in Slots : RunMiddleware(r)
    \/ \E r \in Slots : GetSettings(r)
    \/ \E r \in Slots : Materialize(r)
    \/ \E r \in Slots, p \in Payloads \ {EmptyPayload} : UpdateSettings(r, p)
    \/ \E r \in Slots : Upsert(r)
    \/ \E r \in Slots : Complete(r)

SpecPut == InitDeployed /\ [][NextPut]_vars

\* Calls of the front end's ApiClient, whatever fetch answers.
NextApi ==
    \/ \E n \in RetriesOffered : MakeRequest(n)
    \/ \E o \in FetchOutcomes : Attempt(o)
    \/ Exhausted
    \/ \E b \in BodyKinds : HandleResponse(b)
    \/ Settle

\* fetch settles within the timeout, timers fire and continuations run: a
\* call that can take its next step does so.
SpecApi ==
    /\ Init
    /\ [][NextApi]_vars
    /\ WF_vars(\E o \in FetchOutcomes : Attempt(o))
    /\ WF_vars(Exhausted)
    /\ WF_vars(\E b \in BodyKinds : HandleResponse(b))

(* ------------------------------ claims --------------------------------- *)

\* C1: in every reachable state, whatever the interleaving of the migration,
\* GET, PUT and user creation, user_settings holds at most one row per user id.
C1_OneRowPerUser == \A u \in Users : Cardinality(RowsOf(rows, u)) <= 1

\* Two first-access GETs of one user both found no row and both were answered.
C1_Witness ==
    \E r, s \in Slots :
        /\ r # s
        /\ req[r].pc = "done" /\ req[s].pc = "done"
        /\ req[r].missed /\ req[s].missed
        /\ req[r].status = 200 /\ req[s].status = 200
        /\ req[r].scope = req[s].scope
        /\ RowsOf(rows, req[r].scope) # {}

\* C2: a response to a request authenticated as B carries only rows of B, and
\* no step of that request changes the rows of another user.
C2_TenantIsolation ==
    /\ [](\A r \in Slots : \A x \in req[r].body : x.user_id = req[r].cred)
    /\ [][\A r \in Slots :
            req[r].pc # "idle" /\ req'[r].pc # req[r].pc
                => \A u \in Users \ {req[r].cred} : RowsOf(rows', u) = RowsOf(rows, u)]_vars

\* B's PUT was answered 200 while A holds a row with values of its own.
C2_Witness ==
    \E r \in Slots :
        /\ req[r].pc = "done" /\ req[r].method = "PUT" /\ req[r].status = 200
        /\ req[r].cred = "B"
        /\ \E x \in RowsOf(rows, "A"), y \in req[r].body : x.currency # y.currency

\* C3: a PUT whose payload carries a value outside the closed set of currency,
\* language or theme is answered 400 and no row of the store changes, also
\* when the payload carries valid values for other fields.
C3_InvalidEnumRejected ==
    [][\A r \in Slots :
         LET p == req'[r].payload IN
         /\ req[r].pc = "updateSettingsHandler"
         /\ req'[r].pc # "updateSettingsHandler"
         /\ \/ "currency" \in DOMAIN p /\ p["currency"] \notin {"USD", "RWF"}
            \/ "language" \in DOMAIN p /\ p["language"] \notin {"en", "rw"}
            \/ "theme" \in DOMAIN p /\ p["theme"] \notin {"light", "dark", "system"}
         => /\ req'[r].pc = "done"
            /\ req'[r].status = 400
            /\ rows' = rows]_vars

\* A PUT naming a valid currency and an invalid theme was answered 400 while
\* the user holds a row.
C3_Witness ==
    \E r \in Slots :
        /\ req[r].pc = "done" /\ req[r].status = 400
        /\ DOMAIN req[r].payload = {"currency", "theme"}
        /\ req[r].payload["currency"] = "RWF"
        /\ req[r].payload["theme"] = "blue"
        /\ RowsOf(rows, req[r].scope) # {}

\* C4: in the migrated database a GET of an existing user is never answered
\* with an error; when the user has no row the response is 200 with the
\* default values (currency USD, language en, timezone UTC, theme light).
C4_DefaultsOnFirstGet ==
    [][\A r \in Slots :
         /\ req[r].pc \in {"getSettingsHandler", "materialize"}
         /\ req'[r].pc = "done"
         /\ tableExists
         /\ req[r].scope \in Users
         /\ userState[req[r].scope] = "active"
         => /\ req'[r].status = 200
            /\ RowsOf(rows, req[r].scope) = {} =>
                 /\ Cardinality(req'[r].body) = 1
                 /\ \A x \in req'[r].body :
                      /\ x.user_id = req[r].scope
                      /\ x.currency = "USD"
                      /\ x.language = "en"
                      /\ x.timezone = "UTC"
                      /\ x.theme = "light"]_vars

\* A GET that found no row was answered 200 with the default values.
C4_Witness ==
    \E r \in Slots :
        /\ req[r].pc = "done" /\ req[r].method = "GET" /\ req[r].missed
        /\ req[r].status = 200
        /\ \E x \in req[r].body : x.currency = "USD" /\ x.theme = "light"

\* C5: a successful PUT changes only the fields its payload names, plus
\* updated_at: every other column of the user's row keeps its value, and on a
\* first access without a row the columns not named take their defaults.
C5_PartialUpdateFrame ==
    [][\A r \in Slots :
         /\ req[r].pc = "upsert"
         /\ req'[r].pc = "done"
         /\ req'[r].status = 200
         => LET p == req[r].payload
                old == RowsOf(rows, req[r].scope)
                new == RowsOf(rows', req[r].scope)
            IN /\ Cardinality(new) = 1
               /\ req'[r].body = new
               /\ \A y \in new :
                    /\ \A f \in DOMAIN p : y[f] = p[f]
                    /\ \A x \in old :
                         \A c \in DOMAIN x \ (DOMAIN p \cup {"updated_at"}) : y[c] = x[c]
                    /\ old = {} =>
                         /\ "currency" \notin DOMAIN p => y.currency = "USD"
                         /\ "language" \notin DOMAIN p => y.language = "en"
                         /\ "theme" \notin DOMAIN p => y.theme = "light"
                         /\ y.timezone = "UTC"]_vars

\* PUT {currency: RWF} was answered with currency RWF, the unchanged language
\* en and a theme that an earlier PUT had set.
C5_Witness ==
    \E r \in Slots :
        /\ req[r].pc = "done" /\ req[r].method = "PUT" /\ req[r].status = 200
        /\ DOMAIN req[r].payload = {"currency"}
        /\ \E y \in req[r].body :
             y.currency = "RWF" /\ y.language = "en" /\ y.theme = "dark"

\* C6: a GET that begins after a successful PUT of the same user was answered,
\* with no PUT of that user committed since, returns for every field the PUT named
\* the value the PUT gave it.
C6_RoundTrip ==
    \A r, s \in Slots :
        /\ req[s].pc = "done" /\ req[s].method = "PUT" /\ req[s].status = 200
        /\ req[r].pc = "done" /\ req[r].method = "GET" /\ req[r].status = 200
        /\ req[r].scope = req[s].scope
        /\ s \in req[r].prior
        /\ req[s].latest
        => /\ req[r].body # {}
           /\ \A y \in req[r].body :
                \A f \in DOMAIN req[s].payload : y[f] = req[s].payload[f]

\* PUT {theme: system, language: rw}, then GET: the GET returned both values.
C6_Witness ==
    \E r, s \in Slots :
        /\ req[s].pc = "done" /\ req[s].method = "PUT" /\ req[s].status = 200
        /\ req[r].pc = "done" /\ req[r].method = "GET" /\ req[r].status = 200
        /\ s \in req[r].prior
        /\ req[s].payload = [theme |-> "system", language |-> "rw"]
        /\ \E y \in req[r].body : y.theme = "system" /\ y.language = "rw"

C8_LastWriteWins ==
    \A r, s \in Slots :
        /\ req[s].pc = "done" /\ req[s].method = "PUT" /\ req[s].status = 200
        /\ req[r].pc = "done" /\ req[r].method = "PUT" /\ req[r].status = 200
        /\ req[r].scope = req[s].scope
        /\ s \notin req[r].prior /\ r \notin req[s].prior
        /\ req[r].latest
        => /\ RowsOf(rows, req[r].scope) # {}
           /\ \A y \in RowsOf(rows, req[r].scope) :
                /\ \A f \in DOMAIN req[r].payload : y[f] = req[r].payload[f]
                /\ \A f \in DOMAIN req[s].payload \ DOMAIN req[r].payload :
                      y[f] = req[s].payload[f]
                /\ \A x \in req[s].body :
                      \A c \in ValueColumns \ DOMAIN req[r].payload : y[c] = x[c]

\* Two overlapping PUTs, both naming currency with different values and each
\* naming a field the other does not, were both answered 200.
C8_Witness ==
    \E r, s \in Slots :
        /\ req[s].pc = "done" /\ req[s].method = "PUT" /\ req[s].status = 200
        /\ req[r].pc = "done" /\ req[r].method = "PUT" /\ req[r].status = 200
        /\ s \notin req[r].prior /\ r \notin req[s].prior
        /\ req[r].latest
        /\ req[s].payload = [currency |-> "RWF", language |-> "rw"]
        /\ req[r].payload = [currency |-> "USD", theme |-> "dark"]

\* C9: a handler runs only after authenticate, enforceDataIsolation and
\* apiRateLimit have passed the request on, in that order; a request without
\* a valid token is answered 401 by the first of them, is given no row and
\* changes nothing in the store.
C9_MiddlewareBeforeHandler ==
    /\ [](\A r \in Slots :
            LET q == req[r]
                chain == <<"authenticate", "enforceDataIsolation", "apiRateLimit">>
            IN /\ Len(q.passed) <= 3
               /\ q.passed = SubSeq(chain, 1, Len(q.passed))
               /\ q.pc \in {"getSettingsHandler", "updateSettingsHandler",
                            "materialize", "upsert"}
                    => q.passed = chain /\ q.cred # NoUser
               /\ q.pc = "done" /\ q.status \in {200, 400, 500} => q.passed = chain
               /\ q.pc = "done" /\ q.cred = NoUser
                    => q.status = 401 /\ q.passed = <<>> /\ q.body = {})
    /\ [][\A r \in Slots :
            req[r].pc # "idle" /\ req[r].cred = NoUser /\ req'[r].pc # req[r].pc
                => rows' = rows /\ nextId' = nextId]_vars

\* A request without a token was answered 401 while the store holds rows.
C9_Witness ==
    \E r \in Slots :
        /\ req[r].pc = "done" /\ req[r].cred = NoUser /\ req[r].status = 401
        /\ rows # {}

\* C10: a row leaves user_settings only in the step that deletes its owner,
\* never in a step of GET or PUT, and every row references an existing user.
C10_RowsFollowUsers ==
    /\ [](\A x \in rows : x.user_id \in Users /\ userState[x.user_id] = "active")
    /\ [][\A x \in rows :
            (\A y \in rows' : y.setting_id # x.setting_id)
                => /\ userState[x.user_id] = "active"
                   /\ userState'[x.user_id] = "deleted"
                   /\ req' = req]_vars

\* A user who was served a row has been deleted: the row is gone, the row of
\* the other user is still there.
C10_Witness ==
    \E r \in Slots :
        /\ req[r].pc = "done" /\ req[r].status = 200 /\ req[r].body # {}
        /\ userState[req[r].scope] = "deleted"
        /\ RowsOf(rows, req[r].scope) = {}
        /\ rows # {}

\* C11: on a database where migration 001 is applied (the table exists and
\* '001' is recorded) no step of a run of the script changes user_settings,
\* any of its rows or schema_migrations, and schema_migrations holds exactly
\* one record of version '001'.
C11_MigrationIdempotent ==
    /\ [](tableExists /\ (\E i \in 1..Len(smVersions) : smVersions[i].version = "001")
            => Cardinality({i \in 1..Len(smVersions) : smVersions[i].version = "001"}) = 1)
    /\ [][tableExists /\ (\E i \in 1..Len(smVersions) : smVersions[i].version = "001") /\ mig' # mig
            => /\ tableExists'
               /\ rows' = rows
               /\ smExists' = smExists
               /\ smVersions' = smVersions]_vars

\* A run of the script on the migrated database has passed its DO block
\* while a user holds a row with a currency of their own choice.
C11_Witness ==
    /\ mig = "record"
    /\ tableExists
    /\ Len(smVersions) = 1
    /\ smVersions[1].version = "001"
    /\ \E x \in rows : x.currency = "RWF"

\* C15: whenever '001' is recorded in schema_migrations, user_settings (with
\* its unique index) exists and holds a row for every remaining user the
\* backfill found.
C15_RecordedOnlyIfTable ==
    (\E i \in 1..Len(smVersions) : smVersions[i].version = "001")
        => /\ tableExists
           /\ \A u \in preExisting : userState[u] = "active" => RowsOf(rows, u) # {}


\* C12: withRetry calls the request function again only after a response
\* with status 5xx or 429, or after a thrown error: while the loop is still
\* running after a call, that call ended in one of these.
C12_RetryOnlyServerErrors ==
    client.pc = "withRetry" /\ client.calls > 0
        => \/ client.last.kind = "throw"
           \/ client.last.kind = "response" /\ client.last.status = 429
           \/ client.last.kind = "response" /\ client.last.status >= 500
                                             /\ client.last.status <= 599

\* C13: withRetry calls the request function at most retries + 1 times and
\* then ends; it sleeps 2^(k-1) * 1000 ms before retry k, once before every
\* retry; when the attempts are used up it returns the last response if the
\* last attempt produced one and throws the last attempt's error otherwise.
C13_BoundedBackoff ==
    /\ [](/\ client.calls <= client.retries + 1
          /\ \A k \in 1..Len(client.waits) : client.waits[k] = (2 ^ (k - 1)) * 1000
          /\ client.pc = "withRetry" /\ client.attempt <= client.retries
                => Len(client.waits) = client.calls
          /\ client.retried.kind # "none"
                => /\ Len(client.waits) = client.calls - (IF client.calls > 0 THEN 1 ELSE 0)
                   /\ client.retried.value = client.last
                   /\ client.retried.kind =
                        (IF client.last.kind = "response" THEN "return" ELSE "throw"))
    /\ (client.pc = "withRetry") ~> (client.pc # "withRetry")

\* All four calls of the default setting are made, with waits of 1, 2 and 4 s.
C13_Witness ==
    /\ client.retries = 3
    /\ client.calls = 4
    /\ client.waits = <<1000, 2000, 4000>>
    /\ client.retried.kind # "none"

====
